---- MODULE Spec2Model ----
(***************************************************************************)
(* Model of replicator/main.py: the chunker (compute_blobs), the local     *)
(* snapshot store kept in SQLite (local_files, blobs, local_file_blobs,    *)
(* remote_files, remote_file_blobs, bundles), the scan refresh_db_from_fs, *)
(* the diff compare_local_with_remote, the packer assign_blobs_to_bundles,  *)
(* and the base/delta index protocol described in the design comment of    *)
(* main.py.                                                                *)
(*                                                                         *)
(* Byte strings are sequences of integers.  File bytes are taken from      *)
(* Bytes; the two symbols LB and RB occur in digests only.                 *)
(***************************************************************************)
EXTENDS Integers, Sequences, FiniteSets, TLC

VARIABLES
    world,         \* which trees the run draws from
    fs,            \* the tree under repo_root: path -> entry or Absent
    db,            \* the committed content of the SQLite database
    scan_outcome,  \* how the last refresh_db_from_fs ended: idle, committed, error
    scan_txn,      \* the uncommitted tables at the moment the scan raised
    scan_walked,   \* the paths the walk handed to the loop body
    scan_updated,  \* the paths the scan upserted ("Updating ...")
    scan_rechunked,\* the paths the scan called compute_blobs for
    scan_gc,       \* the rows of blobs the scan's garbage collection deleted
    diff_out,      \* new_files, modified_files, deleted_files of the last diff
    pack,          \* what the runs of assign_blobs_to_bundles since the scan read
    chunk_in,      \* chunker specification: the bytes of the file
    chunk_pc,      \* chunker specification: start, done
    chunk_out,     \* chunker specification: the value compute_blobs returned
    base_index,    \* index protocol: the remote base index
    delta_index,   \* index protocol: the remote delta index
    log,           \* index protocol: every ChangeSet ever published
    client,        \* index protocol: per client, what it fetched and applied
    last_op        \* index protocol: the last operation and its result

vars == <<world, fs, db, scan_outcome, scan_txn, scan_walked, scan_updated,
          scan_rechunked, scan_gc, diff_out, pack, chunk_in, chunk_pc, chunk_out,
          base_index, delta_index, log, client, last_op>>

scan_vars == <<world, fs, db, scan_outcome, scan_txn, scan_walked, scan_updated,
               scan_rechunked, scan_gc, diff_out, pack>>

chunk_vars == <<chunk_in, chunk_pc, chunk_out>>

index_vars == <<base_index, delta_index, log, client, last_op>>

(***************************************************************************)
(* Bounds and constants                                                    *)
(***************************************************************************)

\* BLOB_SIZE = 15*1024*1024 in the source; the model counts in units of
\* 5 MiB, so that a 40 MB file is 8 units long.
BLOB_SIZE == 3

\* The longest byte stream the chunker specification draws.
MaxLen == 8

\* The largest rowid a run of the scanner specification hands out.
MaxRowId == 3

\* The largest sequence number a run of the index specification publishes.
MaxSeq == 3

Bytes == {1, 2}

LB == -1

RB == -2

\* SQL NULL / Python None in a column that holds bytes (a digest).
NULL == <<>>

\* SQL NULL / Python None in a column that holds a path or a bundle uuid.
NoPath == "NULL"

Min(a, b) == IF a < b THEN a ELSE b

SetMax(S) == IF S = {} THEN 0 ELSE CHOOSE x \in S : \A y \in S : y <= x

(***************************************************************************)
(* Chunker                                                                 *)
(***************************************************************************)

\* hashlib.sha256 of a byte string: collision free, and the concatenation
\* of digests can be split again in one way only (digests have a fixed
\* width in the source, balanced brackets here).
sha256(data) == <<LB>> \o data \o <<RB>>

RECURSIVE join(_)
join(parts) == IF parts = <<>> THEN <<>> ELSE Head(parts) \o join(Tail(parts))

\* file.read(BLOB_SIZE) on a buffered binary file returns BLOB_SIZE bytes,
\* or what is left before the end of the file.
file_read(data, n) == SubSeq(data, 1, Min(n, Len(data)))

\* A faulty variant of read_blobs: a short last read is taken for the end of file.
RECURSIVE read_blobs_drop_tail(_)
read_blobs_drop_tail(data) ==
    IF Len(data) < BLOB_SIZE THEN <<>>
    ELSE <<<<sha256(file_read(data, BLOB_SIZE)), BLOB_SIZE>>>>
         \o read_blobs_drop_tail(SubSeq(data, BLOB_SIZE + 1, Len(data)))

\* The while loop of compute_blobs: one (digest, length) pair per read.
RECURSIVE read_blobs(_)
read_blobs(data) ==
    LET chunk == file_read(data, BLOB_SIZE)
    IN  IF chunk = <<>> THEN <<>>
        ELSE <<<<sha256(chunk), Len(chunk)>>>>
             \o read_blobs(SubSeq(data, Len(chunk) + 1, Len(data)))

\* compute_blobs returns (blobs, combined_hash).
compute_blobs(data) ==
    LET blobs == read_blobs(data)
    IN  <<blobs, sha256(join([i \in 1..Len(blobs) |-> blobs[i][1]]))>>

(***************************************************************************)
(* Types                                                                   *)
(***************************************************************************)

\* FILE_KIND_TABLE: the kind column of local_files to FileKind.
FILE_KIND_TABLE == [f |-> "REGULAR", l |-> "LINK", d |-> "DIRECTORY"]

file_kind_to_db(kind) == CHOOSE k \in DOMAIN FILE_KIND_TABLE : FILE_KIND_TABLE[k] = kind

\* The fields eq_metadata walks over: a.__dict__ of a FileMeta.
FileMetaFields == {"filepath", "kind", "mtime", "ctime", "size", "inode",
                   "executable", "link_target"}

\* A faulty variant of eq_metadata: a link_target of None on both sides counts
\* as a difference, as NULL = NULL does in SQL.
eq_metadata_null_differs(a, b) ==
    /\ \A k \in FileMetaFields : a[k] = b[k]
    /\ a.link_target # NoPath

\* eq_metadata(fs_file, db_file): every field of a but id equals b's.
eq_metadata(a, b) == \A k \in FileMetaFields : a[k] = b[k]

(***************************************************************************)
(* The database                                                            *)
(***************************************************************************)

\* cursor.lastrowid of an insert into a rowid table.
next_rowid(rows) == SetMax({r.id : r \in rows}) + 1

\* A faulty variant of db_insert_blob: plain insert, no "on conflict(hash) do nothing".
db_insert_blob_always(d, blob) ==
    LET id == next_rowid(d.blobs)
    IN  [db |-> [d EXCEPT !.blobs = @ \cup {[id |-> id, hash |-> blob[1],
                                              size |-> blob[2], bundle_uuid |-> NoPath]}],
         id |-> id]

\* One turn of the loop of db_insert_blobs: insert or ignore, then select the id.
db_insert_blob(d, blob) ==
    LET present == {b \in d.blobs : b.hash = blob[1]}
        blobs1 == IF present # {} THEN d.blobs
                  ELSE d.blobs \cup {[id |-> next_rowid(d.blobs), hash |-> blob[1],
                                      size |-> blob[2], bundle_uuid |-> NoPath]}
    IN  [db |-> [d EXCEPT !.blobs = blobs1],
         id |-> (CHOOSE b \in blobs1 : b.hash = blob[1]).id]

\* db_insert_blobs returns the tables and blob_ids, one id per blob in order.
RECURSIVE db_insert_blobs(_, _)
db_insert_blobs(d, blobs) ==
    IF blobs = <<>> THEN [db |-> d, blob_ids |-> <<>>]
    ELSE LET one == db_insert_blob(d, Head(blobs))
             rest == db_insert_blobs(one.db, Tail(blobs))
         IN  [db |-> rest.db, blob_ids |-> <<one.id>> \o rest.blob_ids]

\* local_file_blobs is kept as a function: file_id -> the blob_id of the
\* rows of that file_id, in the order of their insertion; a file_id without
\* rows is not in its domain.
file_blobs(d, file_id) ==
    IF file_id \in DOMAIN d.local_file_blobs THEN d.local_file_blobs[file_id] ELSE <<>>

\* The table with the rows of file_id replaced by one row per blob id.
replace_rows(table, file_id, blob_ids) ==
    [f \in (DOMAIN table \ {file_id}) \cup (IF blob_ids = <<>> THEN {} ELSE {file_id}) |->
        IF f = file_id THEN blob_ids ELSE table[f]]

\* A faulty variant of db_assign_blobs_to_local_file: the old rows are not deleted.
db_assign_keep_old(d, file_id, blob_ids, combined_hash) ==
    [d EXCEPT
        !.local_file_blobs = replace_rows(@, file_id, file_blobs(d, file_id) \o blob_ids),
        !.local_files =
            {IF f.id = file_id THEN [f EXCEPT !.combined_hash = combined_hash] ELSE f : f \in @}]

\* delete the file's rows, insert one row per blob id in order, set the hash.
db_assign_blobs_to_local_file(d, file_id, blob_ids, combined_hash) ==
    [d EXCEPT
        !.local_file_blobs = replace_rows(@, file_id, blob_ids),
        !.local_files =
            {IF f.id = file_id THEN [f EXCEPT !.combined_hash = combined_hash] ELSE f : f \in @}]

\* The rows "select * from local_files where filepath = :filepath" returns.
db_try_load_local_file(d, filepath) == {f \in d.local_files : f.filepath = filepath}

\* The DBFileMeta built from a row: kind through FILE_KIND_TABLE.
db_file_meta(row) ==
    [id |-> row.id, filepath |-> row.filepath, kind |-> FILE_KIND_TABLE[row.kind],
     mtime |-> row.mtime, ctime |-> row.ctime, size |-> row.size, inode |-> row.inode,
     executable |-> row.executable, link_target |-> row.link_target]

\* update local_files set <the columns of data> where filepath = :filepath;
\* clear_hash says whether data carries combined_hash = None.
db_update_local_file(d, data, clear_hash) ==
    [d EXCEPT !.local_files =
        {IF f.filepath = data.filepath
         THEN [id |-> f.id, filepath |-> data.filepath, kind |-> file_kind_to_db(data.kind),
               mtime |-> data.mtime, ctime |-> data.ctime, size |-> data.size,
               inode |-> data.inode, executable |-> data.executable,
               link_target |-> data.link_target,
               combined_hash |-> IF clear_hash THEN NULL ELSE f.combined_hash,
               still_exists |-> 1]
         ELSE f : f \in @}]

\* insert into local_files(<the columns of data>); combined_hash stays NULL.
db_insert_local_file(d, data) ==
    [db |-> [d EXCEPT !.local_files = @ \cup
               {[id |-> next_rowid(d.local_files), filepath |-> data.filepath,
                 kind |-> file_kind_to_db(data.kind),
                 mtime |-> data.mtime, ctime |-> data.ctime, size |-> data.size,
                 inode |-> data.inode, executable |-> data.executable,
                 link_target |-> data.link_target,
                 combined_hash |-> NULL, still_exists |-> 1]}],
     id |-> next_rowid(d.local_files)]

(***************************************************************************)
(* The filesystem under repo_root                                          *)
(***************************************************************************)

Paths == {"a", "b"}

\* st_mode of an entry, as stat(follow_symlinks=False) and os.walk see it:
\* reg a regular file, lnk a symbolic link to a non-directory, lnkdir a
\* symbolic link to a directory, fifo an entry that is none of S_ISREG,
\* S_ISLNK, S_ISDIR.
Absent ==
    [mode |-> "none", mtime |-> 0, ctime |-> 0, inode |-> 0, executable |-> FALSE,
     nlink |-> 0, link_target |-> NoPath, content |-> <<>>]

Reg(content, mtime, ctime, inode, executable, nlink) ==
    [mode |-> "reg", mtime |-> mtime, ctime |-> ctime, inode |-> inode,
     executable |-> executable, nlink |-> nlink, link_target |-> NoPath,
     content |-> content]

Lnk(mode, target) ==
    [mode |-> mode, mtime |-> 1, ctime |-> 1, inode |-> 1, executable |-> TRUE,
     nlink |-> 1, link_target |-> target, content |-> <<>>]

Fifo ==
    [mode |-> "fifo", mtime |-> 1, ctime |-> 1, inode |-> 1, executable |-> FALSE,
     nlink |-> 1, link_target |-> NoPath, content |-> <<>>]

\* The trees a run draws from: in "meta" the entries of "a" differ from
\* its first one in one stat field at a time, in "kind" in the kind of the
\* entry, in "content" in the bytes.
Worlds == {"meta", "kind", "content"}

Entries(w, p) ==
    CASE w = "meta" /\ p = "a" ->
            {Reg(<<1>>, 1, 1, 1, FALSE, 1),
             Reg(<<1>>, 1, 1, 1, TRUE, 1),
             Reg(<<1>>, 2, 1, 1, FALSE, 1),
             Reg(<<1>>, 1, 2, 1, FALSE, 1),
             Reg(<<1>>, 1, 1, 2, FALSE, 1),
             Reg(<<1, 2>>, 1, 1, 1, FALSE, 1)}
      [] w = "meta" /\ p = "b" ->
            {Reg(<<1>>, 1, 1, 3, FALSE, 1)}
      [] w = "kind" /\ p = "a" ->
            {Reg(<<1>>, 1, 1, 1, FALSE, 1),
             Reg(<<>>, 1, 1, 1, TRUE, 1),
             Reg(<<1>>, 1, 1, 1, FALSE, 2),
             Lnk("lnk", "t1"),
             Lnk("lnk", "t2"),
             Lnk("lnkdir", "t1"),
             Fifo}
      [] w = "kind" /\ p = "b" ->
            {Reg(<<1>>, 1, 1, 3, FALSE, 1),
             Reg(<<1>>, 1, 1, 3, FALSE, 2)}
      [] w = "content" /\ p = "a" ->
            {Reg(<<1>>, 1, 1, 1, FALSE, 1),
             Reg(<<1, 1, 1, 1, 1, 1>>, 2, 2, 1, FALSE, 1)}
      [] w = "content" /\ p = "b" ->
            {Reg(<<1>>, 1, 1, 3, FALSE, 1),
             Reg(<<2, 2, 2, 1>>, 2, 1, 3, FALSE, 1)}

\* os.walk(repo_root) and "for filename in filenames": filenames holds the
\* non-directory entries; a symbolic link to a directory is listed in
\* dirnames and is not followed.
walk_filenames(tree) == {p \in Paths : tree[p].mode \in {"reg", "lnk", "fifo"}}

\* The orders in which the walk can hand the paths of S to the loop.
Orders(S) == {o \in [1..Cardinality(S) -> S] : \A i, j \in 1..Cardinality(S) : o[i] = o[j] => i = j}

\* file_from_stat: raised, or the FileMeta of the entry.
file_from_stat(rel_path, stat_res) ==
    [raised |-> stat_res.mode \notin {"reg", "lnk", "lnkdir"},
     meta |-> [filepath |-> rel_path,
               kind |-> IF stat_res.mode = "reg" THEN "REGULAR" ELSE "LINK",
               mtime |-> stat_res.mtime,
               ctime |-> stat_res.ctime,
               size |-> IF stat_res.mode = "reg" THEN Len(stat_res.content) ELSE 0,
               inode |-> stat_res.inode,
               executable |-> stat_res.executable,
               link_target |-> IF stat_res.mode = "reg" THEN NoPath ELSE stat_res.link_target]]

(***************************************************************************)
(* refresh_db_from_fs                                                      *)
(***************************************************************************)

\* A faulty variant of content_may_be_modified: the inode is not compared.
content_may_be_modified_no_inode(found, fs_file, db_file) ==
    \/ ~found
    \/ fs_file.size # db_file.size
    \/ fs_file.mtime # db_file.mtime
    \/ fs_file.ctime # db_file.ctime

\* not db_file or size, mtime, ctime or inode differ.
content_may_be_modified(found, fs_file, db_file) ==
    \/ ~found
    \/ fs_file.size # db_file.size
    \/ fs_file.mtime # db_file.mtime
    \/ fs_file.ctime # db_file.ctime
    \/ fs_file.inode # db_file.inode

\* compute_blobs, db_insert_blobs, db_assign_blobs_to_local_file of one file.
rechunk(d, file_id, content) ==
    LET cb == compute_blobs(content)
        ins == db_insert_blobs(d, cb[1])
    IN  db_assign_blobs_to_local_file(ins.db, file_id, ins.blob_ids, cb[2])

\* The else branch of the loop body: upsert the record, rechunk if needed.
\* st is the state of the running scan: the uncommitted tables db, the error
\* raised so far, the paths walked, updated and rechunked.
upsert_entry(st, rel_path, stat_res, rows, fs_file) ==
    LET found == rows # {}
        db_file == IF found THEN db_file_meta(CHOOSE r \in rows : TRUE) ELSE fs_file
        clear_hash == found /\ fs_file.kind # db_file.kind /\ fs_file.kind # "REGULAR"
        ins == db_insert_local_file(st.db, fs_file)
        d1 == IF found THEN db_update_local_file(st.db, fs_file, clear_hash) ELSE ins.db
        file_id == IF found THEN db_file.id ELSE ins.id
        hashing == fs_file.kind = "REGULAR" /\ content_may_be_modified(found, fs_file, db_file)
    IN  [st EXCEPT
            !.db = IF hashing THEN rechunk(d1, file_id, stat_res.content) ELSE d1,
            !.updated = @ \cup {rel_path},
            !.rechunked = IF hashing THEN @ \cup {rel_path} ELSE @]

\* The body of the loop over filenames for one entry.
scan_entry(st, rel_path, stat_res) ==
    IF stat_res.nlink > 1 THEN [st EXCEPT !.err = "hard links not supported yet"]
    ELSE LET rows == db_try_load_local_file(st.db, rel_path)
             res == file_from_stat(rel_path, stat_res)
             fs_file == res.meta
         IN  IF res.raised THEN [st EXCEPT !.err = "Invalid file kind"]
             ELSE IF rows # {} /\ eq_metadata(fs_file, db_file_meta(CHOOSE r \in rows : TRUE))
             THEN [st EXCEPT !.db.local_files =
                      {IF f.filepath = rel_path THEN [f EXCEPT !.still_exists = 1] ELSE f : f \in @}]
             ELSE upsert_entry(st, rel_path, stat_res, rows, fs_file)

\* The loop: the entries in walk order, until one raises.
RECURSIVE scan_loop(_, _, _)
scan_loop(st, tree, order) ==
    IF order = <<>> \/ st.err # "" THEN st
    ELSE scan_loop(scan_entry([st EXCEPT !.walked = @ \cup {Head(order)}],
                              Head(order), tree[Head(order)]),
                   tree, Tail(order))

\* "update local_files set still_exists = 0"
mark_non_existing(d) ==
    [d EXCEPT !.local_files = {[f EXCEPT !.still_exists = 0] : f \in @}]

\* The tables are not created in main.py; main() turns foreign keys on, and
\* the rows of local_file_blobs belong to a file record ("ordered list of
\* block digests per file"): the rows of a deleted record go with it.
on_delete_cascade(d) ==
    [d EXCEPT !.local_file_blobs =
        [f \in {g \in DOMAIN @ : \E r \in d.local_files : r.id = g} |-> @[f]]]

\* "delete from local_files where still_exists = 0"
delete_unused_files(d) ==
    on_delete_cascade([d EXCEPT !.local_files = {f \in @ : f.still_exists # 0}])

\* The rows of local_file_blobs and of remote_file_blobs that name a blob.
blob_is_referenced(d, b) ==
    \/ \E f \in DOMAIN d.local_file_blobs :
          \E i \in 1..Len(d.local_file_blobs[f]) : d.local_file_blobs[f][i] = b.id
    \/ \E r \in d.remote_file_blobs : r.blob_id = b.id

\* A faulty variant of delete_unused_blobs: remote_file_blobs is not consulted.
delete_unused_blobs_local_only(d) ==
    [d EXCEPT !.blobs =
        {b \in @ : \E f \in DOMAIN d.local_file_blobs :
            \E i \in 1..Len(d.local_file_blobs[f]) : d.local_file_blobs[f][i] = b.id}]

\* A faulty variant of delete_unused_blobs: local_file_blobs is not consulted.
delete_unused_blobs_remote_only(d) ==
    [d EXCEPT !.blobs = {b \in @ : \E r \in d.remote_file_blobs : r.blob_id = b.id}]

\* "delete from blobs as b where (not exists ... local_file_blobs ...) and
\*  (not exists ... remote_file_blobs ...)"
delete_unused_blobs(d) ==
    [d EXCEPT !.blobs = {b \in @ : blob_is_referenced(d, b)}]

\* The scan up to the end of the loop.
scan_run(d, tree, order) ==
    scan_loop([db |-> mark_non_existing(d), err |-> "", walked |-> {},
               updated |-> {}, rechunked |-> {}],
              tree, order)

\* A faulty variant of scan_commit: what the scan wrote is kept when it raises.
scan_commit_partial(d, st) ==
    IF st.err # "" THEN st.db
    ELSE delete_unused_blobs(delete_unused_files(st.db))

\* What the database holds after refresh_db_from_fs: a raise leaves the
\* function before db.commit(), so the transaction is never committed.
scan_commit(d, st) ==
    IF st.err # "" THEN d
    ELSE delete_unused_blobs(delete_unused_files(st.db))

(***************************************************************************)
(* compare_local_with_remote                                               *)
(***************************************************************************)

\* SQL "x != y" in a where clause: NULL when either side is NULL, and a
\* NULL condition selects no row.
sql_ne(x, y, null) == x # null /\ y # null /\ x # y

\* The condition of the modified_files query on a pair of rows.  kind,
\* size, mtime and executable are set in every row; combined_hash and
\* link_target may be NULL.
files_differ(rf, lf) ==
    \/ rf.kind # lf.kind
    \/ rf.size # lf.size
    \/ rf.mtime # lf.mtime
    \/ rf.executable # lf.executable
    \/ sql_ne(rf.combined_hash, lf.combined_hash, NULL)
    \/ sql_ne(rf.link_target, lf.link_target, NoPath)

\* The three queries of compare_local_with_remote.
compare_local_with_remote(d) ==
    [ran |-> TRUE,
     new_files |->
        {lf.filepath : lf \in {l \in d.local_files :
            ~\E rf \in d.remote_files : rf.filepath = l.filepath}},
     modified_files |->
        {lf.filepath : lf \in {l \in d.local_files :
            \E rf \in d.remote_files : rf.filepath = l.filepath /\ files_differ(rf, l)}},
     deleted_files |->
        {rf.filepath : rf \in {r \in d.remote_files :
            ~\E lf \in d.local_files : r.filepath = lf.filepath}}]

NoDiff == [ran |-> FALSE, new_files |-> {}, modified_files |-> {}, deleted_files |-> {}]

(***************************************************************************)
(* assign_blobs_to_bundles                                                 *)
(***************************************************************************)

\* filepath is a blob column: min() and "order by" compare paths as bytes.
PathOrder == <<"a", "b">>

path_rank(p) == CHOOSE i \in 1..Len(PathOrder) : PathOrder[i] = p

min_filepath(S) == CHOOSE p \in S : \A q \in S : path_rank(p) <= path_rank(q)

\* The filepath of the rows of local_file_blobs joined with local_files on
\* file_id and with blobs on blob_id, for one blob.
joined_filepaths(d, b) ==
    {f.filepath : f \in {g \in d.local_files :
        \E i \in 1..Len(file_blobs(d, g.id)) : file_blobs(d, g.id)[i] = b.id}}

\* The temp table ordered_blobs: "insert into ordered_blobs ... select
\* blobs.id, min(local_files.filepath), ... group by local_file_blobs.blob_id".
ordered_blobs_table(d) ==
    {[blob_id |-> b.id, filepath |-> min_filepath(joined_filepaths(d, b)),
      bundle_uuid |-> b.bundle_uuid, hash |-> b.hash, size |-> b.size] :
        b \in {x \in d.blobs : joined_filepaths(d, x) # {}}}

RECURSIVE sum_size(_)
sum_size(rows) ==
    IF rows = {} THEN 0
    ELSE LET r == CHOOSE x \in rows : TRUE IN r.size + sum_size(rows \ {r})

\* bundles_by_uuid: for every row of bundles the sum of the sizes of its
\* rows of ordered_blobs; the left join gives NULL to a bundle without rows.
bundles_by_uuid(d, table) ==
    [uuid \in d.bundles |->
        LET members == {r \in table : r.bundle_uuid = uuid}
        IN  [size |-> sum_size(members), is_null |-> members = {}]]

\* "select blob_id, filepath from ordered_blobs order by filepath": the rows
\* in every order that is sorted by filepath; SQL leaves the order of rows
\* of equal filepath open.
ordered_blobs_orders(table) ==
    {[i \in 1..Cardinality(table) |-> [blob_id |-> o[i].blob_id, filepath |-> o[i].filepath]] :
        o \in {x \in Orders(table) :
            \A i, j \in 1..Cardinality(table) :
                i < j => path_rank(x[i].filepath) <= path_rank(x[j].filepath)}}

\* A faulty variant of assign_blobs_to_bundles: every run moves every block it
\* visits to a bundle of a new name.
RECURSIVE assign_blobs_repack_all(_, _)
assign_blobs_repack_all(d, visited) ==
    IF visited = <<>> THEN d
    ELSE LET uuid == CHOOSE u \in {"N1", "N2"} :
                        \A b \in d.blobs : b.id = Head(visited).blob_id => b.bundle_uuid # u
         IN  assign_blobs_repack_all(
                [d EXCEPT !.blobs = {IF b.id = Head(visited).blob_id
                                     THEN [b EXCEPT !.bundle_uuid = uuid] ELSE b : b \in @},
                          !.bundles = @ \cup {uuid}],
                Tail(visited))

\* "for blob in ordered_blobs: pass": the loop visits the rows and writes
\* nothing; the tables of the database are what they were.
RECURSIVE assign_blobs_to_bundles(_, _)
assign_blobs_to_bundles(d, visited) ==
    IF visited = <<>> THEN d
    ELSE assign_blobs_to_bundles(d, Tail(visited))

NoPack ==
    [ran |-> FALSE, rerun |-> FALSE, ordered_blobs |-> {}, visited |-> <<>>,
     bundles_by_uuid |-> <<>>]

(***************************************************************************)
(* The scanner specification                                               *)
(***************************************************************************)

NoFileBlobs == [f \in {} |-> <<>>]

EmptyDb ==
    [local_files |-> {}, blobs |-> {}, local_file_blobs |-> NoFileBlobs,
     remote_files |-> {}, remote_file_blobs |-> {}, bundles |-> {}]

\* A database after an earlier synchronisation: the remote holds an empty
\* executable file "a" and a one-byte file "b"; bundle B1 holds the block of
\* "b" and a block of a file the remote no longer has.
SyncedDb ==
    [local_files |-> {}, local_file_blobs |-> NoFileBlobs,
     blobs |-> {[id |-> 1, hash |-> sha256(<<1>>), size |-> 1, bundle_uuid |-> "B1"],
                [id |-> 2, hash |-> sha256(<<2, 2, 2>>), size |-> 3, bundle_uuid |-> "B1"]},
     remote_files |->
        {[id |-> 1, filepath |-> "a", kind |-> "f", size |-> 0, mtime |-> 1,
          executable |-> TRUE, combined_hash |-> compute_blobs(<<>>)[2],
          link_target |-> NoPath],
         [id |-> 2, filepath |-> "b", kind |-> "f", size |-> 1, mtime |-> 1,
          executable |-> FALSE, combined_hash |-> compute_blobs(<<1>>)[2],
          link_target |-> NoPath]},
     remote_file_blobs |-> {[file_id |-> 2, blob_id |-> 1]},
     bundles |-> {"B1"}]

IndexIdle ==
    /\ base_index = [most_recent_sequence_number |-> 0, initial_actions |-> <<>>]
    /\ delta_index = <<>>
    /\ log = {}
    /\ client = <<>>
    /\ last_op = <<>>

ChunkIdle ==
    /\ chunk_in = <<>>
    /\ chunk_pc = "idle"
    /\ chunk_out = <<>>

ScanIdle ==
    /\ world = "meta"
    /\ fs = [p \in Paths |-> Absent]
    /\ db = EmptyDb
    /\ scan_outcome = "idle"
    /\ scan_txn = EmptyDb
    /\ scan_walked = {}
    /\ scan_updated = {}
    /\ scan_rechunked = {}
    /\ scan_gc = {}
    /\ diff_out = NoDiff
    /\ pack = NoPack

Init ==
    /\ world \in Worlds
    /\ fs = [p \in Paths |-> Absent]
    /\ db \in {EmptyDb, SyncedDb}
    /\ scan_outcome = "idle"
    /\ scan_txn = db
    /\ scan_walked = {}
    /\ scan_updated = {}
    /\ scan_rechunked = {}
    /\ scan_gc = {}
    /\ diff_out = NoDiff
    /\ pack = NoPack
    /\ ChunkIdle
    /\ IndexIdle

\* The tree changes between two runs of the program.
FsChange ==
    \E p \in Paths : \E e \in Entries(world, p) \cup {Absent} :
        /\ fs[p] # e
        /\ fs' = [fs EXCEPT ![p] = e]
        /\ scan_outcome' = "idle"
        /\ scan_txn' = db
        /\ scan_walked' = {}
        /\ scan_updated' = {}
        /\ scan_rechunked' = {}
        /\ scan_gc' = {}
        /\ diff_out' = NoDiff
        /\ pack' = NoPack
        /\ UNCHANGED <<world, db, chunk_vars, index_vars>>

\* One run of refresh_db_from_fs(db, repo_root).
RefreshDbFromFs ==
    \E order \in Orders(walk_filenames(fs)) :
        LET st == scan_run(db, fs, order)
        IN  /\ \A r \in st.db.local_files \cup st.db.blobs : r.id <= MaxRowId
            /\ db' = scan_commit(db, st)
            /\ scan_outcome' = IF st.err = "" THEN "committed" ELSE "error"
            /\ scan_txn' = IF st.err = "" THEN db' ELSE st.db
            /\ scan_walked' = st.walked
            /\ scan_updated' = st.updated
            /\ scan_rechunked' = st.rechunked
            /\ scan_gc' = IF st.err = "" THEN st.db.blobs \ db'.blobs ELSE {}
            /\ diff_out' = NoDiff
            /\ pack' = NoPack
            /\ UNCHANGED <<world, fs, chunk_vars, index_vars>>

\* One run of compare_local_with_remote(db), on the snapshot a scan committed.
CompareLocalWithRemote ==
    /\ scan_outcome = "committed"
    /\ ~diff_out.ran
    /\ diff_out' = compare_local_with_remote(db)
    /\ UNCHANGED <<world, fs, db, scan_outcome, scan_txn, scan_walked, scan_updated,
                   scan_rechunked, scan_gc, pack, chunk_vars, index_vars>>

\* One run of assign_blobs_to_bundles(db), on the snapshot a scan committed;
\* a second run follows the first with nothing in between.
AssignBlobsToBundles ==
    /\ scan_outcome = "committed"
    /\ ~pack.rerun
    /\ LET table == ordered_blobs_table(db)
       IN  \E visited \in ordered_blobs_orders(table) :
            /\ db' = assign_blobs_to_bundles(db, visited)
            /\ pack' = [ran |-> TRUE, rerun |-> pack.ran, ordered_blobs |-> table,
                        visited |-> visited,
                        bundles_by_uuid |-> bundles_by_uuid(db, table)]
    /\ UNCHANGED <<world, fs, scan_outcome, scan_txn, scan_walked, scan_updated,
                   scan_rechunked, scan_gc, diff_out, chunk_vars, index_vars>>

Next == FsChange \/ RefreshDbFromFs \/ CompareLocalWithRemote \/ AssignBlobsToBundles

Spec == Init /\ [][Next]_vars

(***************************************************************************)
(* The chunker specification: compute_blobs on every byte stream of up to  *)
(* MaxLen bytes.                                                           *)
(***************************************************************************)

ByteStreams == UNION {[1..n -> Bytes] : n \in 0..MaxLen}

ChunkInit ==
    /\ ScanIdle
    /\ IndexIdle
    /\ chunk_in \in ByteStreams
    /\ chunk_pc = "start"
    /\ chunk_out = <<<<>>, <<>>>>

\* (blobs, combined_hash) = compute_blobs(filepath)
ChunkCompute ==
    /\ chunk_pc = "start"
    /\ chunk_pc' = "done"
    /\ chunk_out' = compute_blobs(chunk_in)
    /\ UNCHANGED <<chunk_in, scan_vars, index_vars>>

ChunkNext == ChunkCompute

SpecChunk == ChunkInit /\ [][ChunkNext]_vars

RECURSIVE sum_sizes(_)
sum_sizes(blobs) == IF blobs = <<>> THEN 0 ELSE Head(blobs)[2] + sum_sizes(Tail(blobs))

digests_of(blobs) == [i \in 1..Len(blobs) |-> blobs[i][1]]

\* C4: the combined hash of a file of one block is that block's digest, and
\* the combined hash of a file of several blocks is the digest of the
\* concatenation of the blocks' digests in chunk order.
C4_CombinedHashOfOneBlockIsItsDigest ==
    chunk_pc = "done" =>
        LET blobs == chunk_out[1]
            combined_hash == chunk_out[2]
        IN  /\ Len(blobs) = 1 => combined_hash = blobs[1][1]
            /\ Len(blobs) > 1 => combined_hash = sha256(join(digests_of(blobs)))

\* C5: a stream of n bytes gives ceil(n / BLOB_SIZE) blocks in stream order,
\* every block but the last of BLOB_SIZE bytes, the last of 1..BLOB_SIZE
\* bytes, and the lengths add up to n.
C5_FixedSizeBlocks ==
    chunk_pc = "done" =>
        LET blobs == chunk_out[1]
            n == Len(chunk_in)
            k == Len(blobs)
        IN  /\ k = (n + BLOB_SIZE - 1) \div BLOB_SIZE
            /\ \A i \in 1..k :
                /\ i < k => blobs[i][2] = BLOB_SIZE
                /\ blobs[i][2] >= 1 /\ blobs[i][2] <= BLOB_SIZE
                /\ blobs[i][1] = sha256(SubSeq(chunk_in, (i - 1) * BLOB_SIZE + 1,
                                               Min(i * BLOB_SIZE, n)))
            /\ sum_sizes(blobs) = n

\* C5 witness: the 40 MB file (8 units of 5 MiB) gives blocks of 3, 3 and 2 units.
C5_Witness ==
    /\ chunk_pc = "done"
    /\ Len(chunk_in) = 8
    /\ [i \in 1..Len(chunk_out[1]) |-> chunk_out[1][i][2]] = <<3, 3, 2>>

(***************************************************************************)
(* Properties of the scanner specification                                 *)
(***************************************************************************)

\* A step of RefreshDbFromFs: FsChange leaves scan_outcome idle,
\* CompareLocalWithRemote leaves diff_out.ran set and AssignBlobsToBundles
\* leaves pack.ran set.
ScanStep == scan_outcome' # "idle" /\ ~diff_out'.ran /\ ~pack'.ran

local_row(d, p) == CHOOSE f \in d.local_files : f.filepath = p

has_row(d, p) == \E f \in d.local_files : f.filepath = p

\* C1: after a committed scan the snapshot holds exactly one record, marked
\* still present, for every regular file and every symbolic link of the
\* tree, and no record for any other path.
C1_SnapshotIsTheTree ==
    scan_outcome = "committed" =>
        /\ {f.filepath : f \in db.local_files}
             = {p \in Paths : fs[p].mode \in {"reg", "lnk", "lnkdir"}}
        /\ \A f, g \in db.local_files : f.filepath = g.filepath => f = g
        /\ \A f \in db.local_files : f.still_exists = 1

\* C2: a committed scan rechunks a regular file that has a record exactly
\* when size, mtime, ctime or inode differ from the record, and always
\* rechunks a regular file that has none; when only another field differs the
\* record is updated and the block list and the combined hash stay.
C2_RechunkIffStatDiffers ==
    [][(ScanStep /\ scan_outcome' = "committed") =>
        \A p \in Paths : fs[p].mode = "reg" =>
            LET new == file_from_stat(p, fs[p]).meta
                old == local_row(db, p)
                now == local_row(db', p)
            IN  /\ ~has_row(db, p) => p \in scan_rechunked'
                /\ has_row(db, p) =>
                    /\ p \in scan_rechunked' <=>
                          \/ new.size # old.size
                          \/ new.mtime # old.mtime
                          \/ new.ctime # old.ctime
                          \/ new.inode # old.inode
                    /\ (p \notin scan_rechunked' /\ ~eq_metadata(new, db_file_meta(old))) =>
                          /\ p \in scan_updated'
                          /\ eq_metadata(new, db_file_meta(now))
                          /\ now.id = old.id
                          /\ file_blobs(db', now.id) = file_blobs(db, old.id)
                          /\ now.combined_hash = old.combined_hash]_vars

\* C2 witness: a committed scan that found only the executable flag of "a"
\* flipped: the record is updated, the file is not rechunked.
C2_Witness ==
    /\ scan_outcome = "committed"
    /\ fs["a"] = Reg(<<1>>, 1, 1, 1, TRUE, 1)
    /\ "a" \in scan_updated \ scan_rechunked
    /\ local_row(db, "a").executable
    /\ local_row(db, "a").combined_hash = compute_blobs(<<1>>)[2]

\* C3: a scan that raises (a hard link, an entry of unknown kind) leaves the
\* committed database as it was.
C3_ErrorCommitsNothing ==
    [][(ScanStep /\ scan_outcome' = "error") => db' = db]_vars

\* C3 witness: a scan raised on a hard-linked file after it had upserted and
\* rechunked another entry in its transaction.
C3_Witness ==
    /\ scan_outcome = "error"
    /\ \E p \in scan_walked : fs[p].nlink > 1
    /\ scan_updated # {}
    /\ scan_rechunked # {}
    /\ scan_txn.local_files # db.local_files
    /\ scan_txn.blobs # db.blobs
    /\ scan_txn.local_file_blobs # db.local_file_blobs

\* C6: the registry never holds two rows of one digest; a scan leaves a row
\* whose digest it registers again as it is; byte-identical blocks of the
\* files a scan rechunks, in two files or twice in one, get the same id.
C6_RegistryDeduplicates ==
    /\ [](\A b1, b2 \in db.blobs : (b1.hash = b2.hash \/ b1.id = b2.id) => b1 = b2)
    /\ [](scan_outcome = "committed" =>
            \A p, q \in scan_rechunked :
                LET bp == read_blobs(fs[p].content)
                    bq == read_blobs(fs[q].content)
                    lp == file_blobs(db, local_row(db, p).id)
                    lq == file_blobs(db, local_row(db, q).id)
                IN  /\ Len(lp) = Len(bp)
                    /\ Len(lq) = Len(bq)
                    /\ \A i \in 1..Len(bp) : \A j \in 1..Len(bq) :
                          bp[i][1] = bq[j][1] => lp[i] = lq[j])
    /\ [][ScanStep =>
            \A b \in db.blobs : \A c \in scan_txn'.blobs : c.hash = b.hash => c = b]_vars

\* C6 witness: after a committed scan two files share a block id and the
\* registry holds one row for it.
C6_Witness ==
    /\ scan_outcome = "committed"
    /\ scan_rechunked = {"a", "b"}
    /\ \E i \in 1..Len(file_blobs(db, local_row(db, "a").id)) :
       \E j \in 1..Len(file_blobs(db, local_row(db, "b").id)) :
            file_blobs(db, local_row(db, "a").id)[i] = file_blobs(db, local_row(db, "b").id)[j]

\* The blob rows a list of blob ids names, in order.
blobs_of(d, blob_ids) ==
    [i \in 1..Len(blob_ids) |->
        LET b == CHOOSE x \in d.blobs : x.id = blob_ids[i] IN <<b.hash, b.size>>]

\* C7: after a committed scan the association of every file it rechunked is
\* the list of the file's blocks in chunk order, repeated blocks included and
\* nothing left of the previous list, its combined hash is the one computed,
\* and the association of every other file of the snapshot is what it was.
C7_AssignReplacesTheList ==
    [][(ScanStep /\ scan_outcome' = "committed") =>
        /\ \A p \in scan_rechunked' :
            LET row == local_row(db', p)
                ids == file_blobs(db', row.id)
            IN  /\ \A i \in 1..Len(ids) : \E x \in db'.blobs : x.id = ids[i]
                /\ blobs_of(db', ids) = compute_blobs(fs[p].content)[1]
                /\ row.combined_hash = compute_blobs(fs[p].content)[2]
        /\ \A f \in db'.local_files :
            f.filepath \notin scan_rechunked' =>
                file_blobs(db', f.id) = file_blobs(db, f.id)]_vars

\* C7 witness: a rechunked file of two identical blocks: the block id is
\* stored at both positions.
C7_Witness ==
    /\ scan_outcome = "committed"
    /\ "a" \in scan_rechunked
    /\ Len(read_blobs(fs["a"].content)) = 2
    /\ LET ids == file_blobs(db, local_row(db, "a").id)
       IN  Len(ids) = 2 /\ ids[1] = ids[2]

\* A file record, local or remote, has an association to the blob.
file_references(d, b) ==
    \/ \E f \in d.local_files : \E i \in 1..Len(file_blobs(d, f.id)) : file_blobs(d, f.id)[i] = b.id
    \/ \E rf \in d.remote_files : \E r \in d.remote_file_blobs :
          r.file_id = rf.id /\ r.blob_id = b.id

remote_row(d, p) == CHOOSE f \in d.remote_files : f.filepath = p

\* C9: the diff gives three disjoint sets: added the paths only the local
\* snapshot has, deleted the paths only the remote snapshot has, modified the
\* common paths whose kind, size, mtime, executable, combined hash or symlink
\* target are not equal, a field absent on one side only included.
C9_DiffSets ==
    diff_out.ran =>
        LET local == {f.filepath : f \in db.local_files}
            remote == {f.filepath : f \in db.remote_files}
        IN  /\ diff_out.new_files = local \ remote
            /\ diff_out.deleted_files = remote \ local
            /\ diff_out.modified_files =
                {p \in local \cap remote :
                    LET lf == local_row(db, p)
                        rf == remote_row(db, p)
                    IN  \/ lf.kind # rf.kind
                        \/ lf.size # rf.size
                        \/ lf.mtime # rf.mtime
                        \/ lf.executable # rf.executable
                        \/ lf.combined_hash # rf.combined_hash
                        \/ lf.link_target # rf.link_target}
            /\ diff_out.new_files \cap diff_out.modified_files = {}
            /\ diff_out.new_files \cap diff_out.deleted_files = {}
            /\ diff_out.modified_files \cap diff_out.deleted_files = {}

(***************************************************************************)
(* Properties of the packer                                                *)
(***************************************************************************)

\* A step of AssignBlobsToBundles.
PackStep == pack'.ran /\ pack' # pack

\* C13: after a run of assign_blobs_to_bundles every block that a local file
\* references is assigned to a bundle, and to one that exists.
C13_ReferencedBlocksAreBundled ==
    pack.ran =>
        \A b \in db.blobs :
            joined_filepaths(db, b) # {} =>
                b.bundle_uuid # NoPath /\ b.bundle_uuid \in db.bundles

\* The bundle every block is assigned to.
bundle_of(d) == {<<b.id, b.bundle_uuid>> : b \in d.blobs}

\* C14: a run of assign_blobs_to_bundles that follows a run with nothing in
\* between leaves every block in the bundle it was in, creates no bundle and
\* drops none.
C14_SecondRunChangesNothing ==
    [][(PackStep /\ pack.ran) =>
          /\ bundle_of(db') = bundle_of(db)
          /\ db'.bundles = db.bundles
          /\ db'.local_files = db.local_files
          /\ db'.local_file_blobs = db.local_file_blobs]_vars

\* C14 witness: two runs in a row on a snapshot in which one referenced
\* block is in a bundle and another is in none.
C14_Witness ==
    /\ pack.rerun
    /\ \E r \in pack.ordered_blobs : r.bundle_uuid # NoPath
    /\ \E r \in pack.ordered_blobs : r.bundle_uuid = NoPath

\* C15: every referenced block is keyed by the smallest path of the files
\* that reference it, and the rows of ordered_blobs can be visited in one
\* order only: the order the run took is the only one the query can give.
C15_OneVisitingOrder ==
    pack.ran =>
        /\ \A b \in db.blobs : joined_filepaths(db, b) # {} =>
              \E r \in pack.ordered_blobs :
                  /\ r.blob_id = b.id
                  /\ r.filepath \in joined_filepaths(db, b)
                  /\ \A q \in joined_filepaths(db, b) : path_rank(r.filepath) <= path_rank(q)
        /\ \A r \in pack.ordered_blobs :
              \E b \in db.blobs : b.id = r.blob_id /\ joined_filepaths(db, b) # {}
        /\ \A o \in ordered_blobs_orders(pack.ordered_blobs) : o = pack.visited

(***************************************************************************)
(* Properties of the snapshot over sequences of scans                      *)
(***************************************************************************)

\* C16: a scan that follows a committed scan with no change of the tree in
\* between commits, upserts no record, rechunks no file, deletes no block
\* and no record, and leaves the tables as they were.
C16_RescanChangesNothing ==
    [][(ScanStep /\ scan_outcome = "committed") =>
          /\ scan_outcome' = "committed"
          /\ scan_updated' = {}
          /\ scan_rechunked' = {}
          /\ scan_gc' = {}
          /\ db' = db]_vars

\* C16 witness: a committed scan walked a regular file and a symbolic link
\* that have records and blocks, and upserted neither.
C16_Witness ==
    /\ scan_outcome = "committed"
    /\ scan_walked = {"a", "b"}
    /\ scan_updated = {}
    /\ fs["a"].mode = "lnk"
    /\ fs["b"].mode = "reg"
    /\ has_row(db, "a") /\ has_row(db, "b")
    /\ file_blobs(db, local_row(db, "b").id) # <<>>

\* C17: a record of the snapshot has a combined hash exactly when its kind
\* is regular.
C17_HashIffRegular ==
    \A f \in db.local_files : f.combined_hash # NULL <=> f.kind = "f"

\* C18: only the records of regular files have rows in local_file_blobs.
C18_OnlyRegularHasBlocks ==
    \A f \in db.local_files : file_blobs(db, f.id) # <<>> => f.kind = "f"

Clients == {"A", "B"}

\* The actions of the model: SetFile and RemoveFile on one path.
SetFile(filepath, hash) == [type |-> "SetFile", filepath |-> filepath, hash |-> hash]

RemoveFile(filepath) == [type |-> "RemoveFile", filepath |-> filepath, hash |-> 0]

\* The action lists a client publishes.
ActionLists ==
    {<<SetFile("a", 1)>>, <<SetFile("a", 2)>>, <<RemoveFile("a")>>,
     <<SetFile("a", 1), SetFile("a", 2)>>}

\* The repository a replay reconstructs: path -> hash, 0 for no file.
EmptyRepo == [p \in {"a"} |-> 0]

apply_action(repo, action) ==
    IF action.type = "SetFile" THEN [repo EXCEPT ![action.filepath] = action.hash]
    ELSE [repo EXCEPT ![action.filepath] = 0]

RECURSIVE replay(_, _)
replay(repo, actions) ==
    IF actions = <<>> THEN repo
    ELSE replay(apply_action(repo, Head(actions)), Tail(actions))

\* The sequence number of the most recent ChangeSet of the remote.
last_sequence(base, delta) ==
    IF delta = <<>> THEN base.most_recent_sequence_number
    ELSE delta[Len(delta)].sequence_number

\* A faulty variant of apply_changeset: no replay protection, the ChangeSet is applied.
apply_changeset_unprotected(cl, cs) ==
    [client |-> [cl EXCEPT !.state = replay(@, cs.actions),
                           !.last_applied = cs.sequence_number],
     result |-> "ok"]

\* A client applies a ChangeSet it is offered: a sequence number up to the
\* one it has applied (the base index's when it fetched) is a replay, one
\* beyond the next is a gap; both fail and change nothing.
apply_changeset(cl, cs) ==
    IF cs.sequence_number <= cl.last_applied
    THEN [client |-> cl, result |-> "ReplayError"]
    ELSE IF cs.sequence_number # cl.last_applied + 1
    THEN [client |-> cl, result |-> "GapError"]
    ELSE [client |-> [cl EXCEPT !.state = replay(@, cs.actions),
                                !.last_applied = cs.sequence_number],
          result |-> "ok"]

RECURSIVE apply_all(_, _)
apply_all(cl, changes) ==
    IF changes = <<>> THEN cl
    ELSE apply_all(apply_changeset(cl, Head(changes)).client, Tail(changes))

\* apply_since(last_seen_sequence): the ChangeSets above it, in order.
apply_since(delta, last_seen_sequence) ==
    SelectSeq(delta, LAMBDA cs : cs.sequence_number > last_seen_sequence)

\* The serialized size of an index, in entries.
RECURSIVE delta_size(_)
delta_size(delta) ==
    IF delta = <<>> THEN 0 ELSE 1 + Len(Head(delta).actions) + delta_size(Tail(delta))

base_size(base) == 1 + Len(base.initial_actions)

RECURSIVE delta_actions(_)
delta_actions(delta) ==
    IF delta = <<>> THEN <<>> ELSE Head(delta).actions \o delta_actions(Tail(delta))

\* What a client that reads the base index and then the delta index holds.
fetch(base, delta) ==
    LET fresh == [base_seq |-> base.most_recent_sequence_number,
                  last_applied |-> base.most_recent_sequence_number,
                  state |-> replay(EmptyRepo, base.initial_actions)]
    IN  apply_all(fresh, apply_since(delta, fresh.last_applied))

\* A faulty variant of publish: the sequence number the client last read is
\* not compared with the remote's.
publish_unchecked(cl, base, delta, actions) ==
    LET last == last_sequence(base, delta)
    IN  [result |-> "ok", sequence_number |-> last + 1,
         delta |-> Append(delta, [sequence_number |-> last + 1, actions |-> actions])]

\* publish(actions) -> sequence_number: append a ChangeSet of sequence number
\* last_sequence + 1, or fail with Conflict when the remote has moved on
\* since the client last read it.
publish(cl, base, delta, actions) ==
    LET last == last_sequence(base, delta)
    IN  IF cl.last_applied # last
        THEN [result |-> "Conflict", sequence_number |-> 0, delta |-> delta]
        ELSE [result |-> "ok", sequence_number |-> last + 1,
              delta |-> Append(delta, [sequence_number |-> last + 1, actions |-> actions])]

\* A faulty variant of compact: the folded actions are put before the base
\* index's actions.
compact_prepend(base, delta) ==
    [base |-> [most_recent_sequence_number |-> last_sequence(base, delta),
               initial_actions |-> delta_actions(delta) \o base.initial_actions],
     delta |-> <<>>]

\* compact(): fold every ChangeSet of the delta index into the base index's
\* action list, record the last folded sequence number, clear the delta index.
compact(base, delta) ==
    [base |-> [most_recent_sequence_number |-> last_sequence(base, delta),
               initial_actions |-> base.initial_actions \o delta_actions(delta)],
     delta |-> <<>>]

IndexInit ==
    /\ ScanIdle
    /\ ChunkIdle
    /\ base_index = [most_recent_sequence_number |-> 0, initial_actions |-> <<>>]
    /\ delta_index = <<>>
    /\ log = {}
    /\ client = [c \in Clients |-> [base_seq |-> 0, last_applied |-> 0, state |-> EmptyRepo]]
    /\ last_op = [op |-> "none", client |-> "A", seq |-> 0, result |-> "ok"]

\* A client reads the base index and replays it, then the delta index.
Fetch(c) ==
    /\ client' = [client EXCEPT ![c] = fetch(base_index, delta_index)]
    /\ last_op' = [op |-> "fetch", client |-> c, seq |-> client'[c].last_applied,
                   result |-> "ok"]
    /\ UNCHANGED <<base_index, delta_index, log, scan_vars, chunk_vars>>

\* A client is offered a ChangeSet that was published at some time.
Apply(c) ==
    \E cs \in log :
        LET r == apply_changeset(client[c], cs)
        IN  /\ client' = [client EXCEPT ![c] = r.client]
            /\ last_op' = [op |-> "apply", client |-> c, seq |-> cs.sequence_number,
                           result |-> r.result]
            /\ UNCHANGED <<base_index, delta_index, log, scan_vars, chunk_vars>>

\* A client publishes the actions of a diff; it applies the ChangeSet it
\* appended to its own copy.
Publish(c) ==
    \E actions \in ActionLists :
        LET r == publish(client[c], base_index, delta_index, actions)
        IN  /\ last_sequence(base_index, delta_index) < MaxSeq
            /\ delta_index' = r.delta
            /\ log' = log \cup {delta_index'[i] : i \in 1..Len(delta_index')}
            /\ client' = IF r.result = "ok"
                         THEN [client EXCEPT ![c] =
                                 apply_changeset(@, delta_index'[Len(delta_index')]).client]
                         ELSE client
            /\ last_op' = [op |-> "publish", client |-> c, seq |-> r.sequence_number,
                           result |-> r.result]
            /\ UNCHANGED <<base_index, scan_vars, chunk_vars>>

\* compact() runs once the delta index is larger than half the base index.
Compact ==
    /\ delta_index # <<>>
    /\ 2 * delta_size(delta_index) > base_size(base_index)
    /\ base_index' = compact(base_index, delta_index).base
    /\ delta_index' = compact(base_index, delta_index).delta
    /\ last_op' = [op |-> "compact", client |-> "A",
                   seq |-> last_sequence(base_index, delta_index), result |-> "ok"]
    /\ UNCHANGED <<log, client, scan_vars, chunk_vars>>

IndexNext ==
    \/ \E c \in Clients : Fetch(c) \/ Apply(c) \/ Publish(c)
    \/ Compact

SpecIndex == IndexInit /\ [][IndexNext]_vars

\* C10: a client that is offered a ChangeSet whose sequence number is not
\* above the sequence number of the base index it fetched gets a replay
\* error, and its repository and its last applied sequence number stay.
C10_ReplayIsRejected ==
    [][(last_op'.op = "apply" /\ last_op'.seq <= client[last_op'.client].base_seq) =>
          /\ last_op'.result = "ReplayError"
          /\ client' = client
          /\ base_index' = base_index
          /\ delta_index' = delta_index]_vars

\* C10 witness: after a compaction a client fetched the advanced base index,
\* was offered a folded ChangeSet and refused it.
C10_Witness ==
    /\ last_op.op = "apply"
    /\ last_op.result = "ReplayError"
    /\ base_index.most_recent_sequence_number >= 2
    /\ client[last_op.client].base_seq = base_index.most_recent_sequence_number
    /\ last_op.seq <= client[last_op.client].base_seq
    /\ \E cs \in log :
        /\ cs.sequence_number = last_op.seq
        /\ replay(client[last_op.client].state, cs.actions) # client[last_op.client].state

\* C11: a publish by a client that has read the remote's last sequence
\* number appends one ChangeSet of sequence number last_sequence + 1; a
\* publish by a client whose read is stale fails with Conflict and appends
\* nothing; the sequence numbers of the delta index always increase strictly
\* and lie above the base index's.
C11_PublishAppendsNextOrConflicts ==
    /\ [](\A i \in 1..Len(delta_index) :
            /\ delta_index[i].sequence_number > base_index.most_recent_sequence_number
            /\ \A j \in 1..Len(delta_index) :
                  i < j => delta_index[i].sequence_number < delta_index[j].sequence_number)
    /\ [][last_op'.op = "publish" =>
            LET last == last_sequence(base_index, delta_index)
            IN  IF client[last_op'.client].last_applied = last
                THEN /\ last_op'.result = "ok"
                     /\ last_op'.seq = last + 1
                     /\ Len(delta_index') = Len(delta_index) + 1
                     /\ SubSeq(delta_index', 1, Len(delta_index)) = delta_index
                     /\ delta_index'[Len(delta_index')].sequence_number = last + 1
                ELSE /\ last_op'.result = "Conflict"
                     /\ delta_index' = delta_index
                     /\ base_index' = base_index
                     /\ log' = log
                     /\ client' = client]_vars

\* C11 witness: A and B had both read sequence number 1, A published 2, and
\* B's publish failed with Conflict.
C11_Witness ==
    /\ last_op = [op |-> "publish", client |-> "B", seq |-> 0, result |-> "Conflict"]
    /\ client["B"].last_applied = 1
    /\ client["A"].last_applied = 2
    /\ last_sequence(base_index, delta_index) = 2
    /\ delta_index # <<>>
    /\ delta_index[Len(delta_index)].sequence_number = 2

\* C12: compact puts the actions of every ChangeSet of the delta index, in
\* order, behind the base index's actions, sets the base index's sequence
\* number to the last folded one and clears the delta index; the repository
\* that the base index and the delta index reconstruct is the same before
\* and after.
C12_CompactKeepsTheRepository ==
    [][last_op'.op = "compact" =>
          /\ base_index'.initial_actions
                = base_index.initial_actions \o delta_actions(delta_index)
          /\ base_index'.most_recent_sequence_number
                = delta_index[Len(delta_index)].sequence_number
          /\ delta_index' = <<>>
          /\ replay(EmptyRepo, base_index'.initial_actions \o delta_actions(delta_index'))
                = replay(EmptyRepo, base_index.initial_actions \o delta_actions(delta_index))
          /\ fetch(base_index', delta_index').state = fetch(base_index, delta_index).state
          /\ fetch(base_index', delta_index').last_applied
                = fetch(base_index, delta_index).last_applied]_vars

\* C12 witness: a compaction folded ChangeSets up to sequence number 3 into
\* a base index whose actions give another repository when the last two are
\* replayed in the other order.
C12_Witness ==
    /\ last_op.op = "compact"
    /\ delta_index = <<>>
    /\ base_index.most_recent_sequence_number = 3
    /\ LET ia == base_index.initial_actions
           n == Len(ia)
       IN  /\ n >= 3
           /\ replay(EmptyRepo, SubSeq(ia, 1, n - 2) \o <<ia[n], ia[n - 1]>>)
                 # replay(EmptyRepo, ia)

====
